---- MODULE Spec2Model ----
(***************************************************************************)
(* State-machine model of src/App.js: a React function component holding a *)
(* fetched user list, a debounced search box, a checkbox selection set and *)
(* a bulk delete control.                                                  *)
(*                                                                         *)
(* JavaScript strings are sequences of one-character strings, so that      *)
(* toLowerCase() and includes() are computed rather than assumed.          *)
(* Every render of App creates fresh closures: a handler or a timer        *)
(* callback sees the `data` / `searchedData` of the render that created    *)
(* it.  A pending timer therefore carries the values it captured.          *)
(***************************************************************************)
EXTENDS Integers, Sequences, FiniteSets, TLC

\* ---------------------------------------------------------------- bounds
\* number of onChange events of the text input (= timers ever scheduled)
MaxInputs == 2

\* number of onChange events in the specification with fairness
MaxFairInputs == 1

\* number of calls of one debounced callable
MaxCalls == 5

\* ------------------------------------------------------ program constants
\* debounce(handleSearchChange, 300)
Delay == 300

\* granularity by which model time advances
TickMs == Delay \div 2

\* value of `debounceTimer` before the first setTimeout (undefined)
NoTimer == 0

\* -------------------------------------------------------------- strings
Lower(c) ==
  CASE c = "A" -> "a"
    [] c = "B" -> "b"
    [] OTHER -> c

\* String.prototype.toLowerCase
ToLowerCase(s) == [i \in 1..Len(s) |-> Lower(s[i])]

\* String.prototype.includes
Includes(s, sub) ==
  \E i \in 0..(Len(s) - Len(sub)) : SubSeq(s, i + 1, i + Len(sub)) = sub

\* the JSON array served by the endpoint
Users ==
  << [id |-> 1, username |-> <<"A", "b">>, email |-> <<"a", "@", "x">>],
     [id |-> 2, username |-> <<"b">>,      email |-> <<"B", "@", "x">>],
     [id |-> 3, username |-> <<"x", "A">>, email |-> <<"x", "@", "x">>] >>

\* values e.target.value takes in the modelled onChange events
InputValues == { <<>>, <<"a">>, <<"a", "b">>, <<"B">> }

Ids == {Users[i].id : i \in 1..Len(Users)}

\* a response body that parses to JSON which is no array (an object):
\* it has no forEach, filter or map
NotAnArray == << [notArray |-> TRUE] >>

\* Array.isArray
IsArray(x) == x # NotAnArray

\* the fields a Record of the data model has (searchedData rows fetched by
\* callAPI carry an extra `selected` field)
Core(r) == [id |-> r.id, username |-> r.username, email |-> r.email]

Cores(list) ==
  IF IsArray(list) THEN [i \in 1..Len(list) |-> Core(list[i])] ELSE <<>>

IdsOf(list) == IF IsArray(list) THEN {list[i].id : i \in 1..Len(list)} ELSE {}

\* the ids of a list, in list order
IdSeq(list) ==
  IF IsArray(list) THEN [i \in 1..Len(list) |-> list[i].id] ELSE <<>>

VARIABLES
  data,          \* useState([])      base list
  searchInput,   \* useState("")      displayed query
  searchedData,  \* useState([])      visible list
  showDelete,    \* useState(false)
  selectedIds,   \* useState(new Set()): the members of the current Set
  selRef,        \* identity of the Set object held in selectedIds
  effectPending, \* the [selectedIds] effect of the last commit has not run yet
  fetchState,    \* "inflight" | "done" | "failed"
  mounted,       \* the component is mounted
  timers,        \* the browser's pending setTimeout callbacks, in due order
  debounceTimer, \* `debounceTimer` of the debounce closure a call would reach
  nextTimerId,   \* id the next setTimeout returns
  sinceCall,     \* history: ms since the last debounced call (capped at Delay)
  lastArgs,      \* history: argument of the last debounced call
  toggleParity,  \* history: odd number of toggles of id since the set was last cleared
  deletedIds,    \* history: ids that were selected at some delete click
  lastOp         \* history: the handler that ran last and its argument

vars ==
  << data, searchInput, searchedData, showDelete, selectedIds, selRef,
     effectPending, fetchState, mounted, timers, debounceTimer, nextTimerId,
     sinceCall, lastArgs, toggleParity, deletedIds, lastOp >>

Op(name, arg, id) == [op |-> name, arg |-> arg, id |-> id]

\* ------------------------------------------------------------- debounce
\* clearTimeout that leaves the pending timer in place
ClearTimeout_Skipped(tbl, h) == tbl

\* clearTimeout(h): removes the timer with that handle, if it is pending
ClearTimeout(tbl, h) == SelectSeq(tbl, LAMBDA t : t.id # h)

\* setTimeout called without its delay argument (runs as soon as possible)
SetTimeout_NoDelay(tbl, id, value, d, sd) ==
  Append(tbl, [id |-> id, remaining |-> 0, value |-> value,
               data |-> d, searchedData |-> sd])

\* setTimeout(() => func(...args), delay); the arrow function closes over
\* func, which closes over the data / searchedData of its render
SetTimeout(tbl, id, value, d, sd) ==
  Append(tbl, [id |-> id, remaining |-> Delay, value |-> value,
               data |-> d, searchedData |-> sd])

\* the callable returned by debounce(func, delay), lines 7-10
DebouncedCall(tbl, h, id, value, d, sd) ==
  [timers |-> SetTimeout(ClearTimeout(tbl, h), id, value, d, sd),
   debounceTimer |-> id]

\* ------------------------------------------------------------ selection
\* a toggle that only ever adds
ToggleSet_AddOnly(sel, id) == sel \cup {id}

\* lines 53-58: copy the set, then delete or add
ToggleSet(sel, id) == IF id \in sel THEN sel \ {id} ELSE sel \cup {id}

\* new Set(...) allocates an object distinct from the one currently held
NewSetRef(ref) == 1 - ref

\* useCallback(..., [selectedIds]), lines 50-62: the memoized callback is
\* replaced whenever selectedIds is another object, so its identity is that
\* of the Set it closes over
HandleCheckBoxRef(ref) == ref

\* the props App passes to the ListItem of row i, lines 138-143.
\* React.memo (line 14) re-renders the row iff one of them differs.
RowProps(list, sel, ref, i) ==
  [item |-> list[i],
   isSelected |-> list[i].id \in sel,
   handleCheckBox |-> HandleCheckBoxRef(ref)]

\* the filter of handleDeleteClick with its test inverted
RemainingNames_Inverted(sd, sel) == SelectSeq(sd, LAMBDA item : item.id \in sel)

\* lines 65-67
RemainingNames(sd, sel) == SelectSeq(sd, LAMBDA item : item.id \notin sel)

\* the size test off by one
ShowDeleteOf_OffByOne(sel) == Cardinality(sel) > 1

\* line 111
ShowDeleteOf(sel) == Cardinality(sel) > 0

\* -------------------------------------------------------------- filter
\* the predicate of lines 91-96
Matches(item, value) ==
  \/ Includes(ToLowerCase(item.username), ToLowerCase(value))
  \/ Includes(ToLowerCase(item.email), ToLowerCase(value))

\* handleSearchChange(value) run in a render whose state is d / sd:
\* the list it passes to setSearchedData
SearchResult(value, d, sd) ==
  IF value = <<>> THEN d
  ELSE SelectSeq(sd, LAMBDA item : Matches(item, value))

\* a copy built back to front
ResultCopy_Reversed(result) ==
  [i \in 1..Len(result) |->
     [id |-> result[Len(result) + 1 - i].id,
      username |-> result[Len(result) + 1 - i].username,
      email |-> result[Len(result) + 1 - i].email, selected |-> FALSE]]

\* a copy loop that starts one element late
ResultCopy_SkipsFirst(result) ==
  [i \in 1..(Len(result) - 1) |->
     [id |-> result[i + 1].id, username |-> result[i + 1].username,
      email |-> result[i + 1].email, selected |-> FALSE]]

\* lines 121-124: deep copy, then item.selected = false on every item
ResultCopy(result) ==
  [i \in 1..Len(result) |->
     [id |-> result[i].id, username |-> result[i].username,
      email |-> result[i].email, selected |-> FALSE]]

\* ---------------------------------------------------------------- Init
\* the state after the first render and its mount effects: the
\* [selectedIds] effect has run (setShowDelete(false)) and callAPI has
\* issued the fetch
Init ==
  /\ data = <<>>
  /\ searchInput = <<>>
  /\ searchedData = <<>>
  /\ showDelete = FALSE
  /\ selectedIds = {}
  /\ selRef = 0
  /\ effectPending = FALSE
  /\ fetchState = "inflight"
  /\ mounted = TRUE
  /\ timers = <<>>
  /\ debounceTimer = NoTimer
  /\ nextTimerId = 1
  /\ sinceCall = Delay
  /\ lastArgs = <<>>
  /\ toggleParity = [i \in Ids |-> FALSE]
  /\ deletedIds = {}
  /\ lastOp = Op("init", <<>>, 0)

\* a user event can be delivered: the component is on screen and React has
\* flushed the passive effects of the previous commit
Interactive == mounted /\ ~effectPending

\* -------------------------------------------------------------- actions
\* onChange of the text input, lines 81-84.  The state update re-renders
\* App, and line 101 of the new render builds a new debounce closure whose
\* debounceTimer is undefined.
HandleInputChange(v) ==
  /\ Interactive
  /\ v # searchInput
  /\ nextTimerId <= MaxInputs
  /\ LET r == DebouncedCall(timers, debounceTimer, nextTimerId, v,
                            data, searchedData)
     IN /\ timers' = r.timers
        /\ debounceTimer' = IF v # searchInput THEN NoTimer ELSE r.debounceTimer
  /\ searchInput' = v
  /\ nextTimerId' = nextTimerId + 1
  /\ sinceCall' = 0
  /\ lastArgs' = v
  /\ lastOp' = Op("input", v, 0)
  /\ UNCHANGED << data, searchedData, showDelete, selectedIds, selRef,
                  effectPending, fetchState, mounted, toggleParity, deletedIds >>

\* time passes; a due timer runs before time passes further
Tick ==
  /\ \A i \in 1..Len(timers) : timers[i].remaining > 0
  /\ timers # <<>> \/ sinceCall < Delay
  /\ timers' = [i \in 1..Len(timers) |->
                  [timers[i] EXCEPT !.remaining = @ - TickMs]]
  /\ sinceCall' = IF sinceCall + TickMs >= Delay THEN Delay ELSE sinceCall + TickMs
  /\ UNCHANGED << data, searchInput, searchedData, showDelete, selectedIds,
                  selRef, effectPending, fetchState, mounted, debounceTimer,
                  nextTimerId, lastArgs, toggleParity, deletedIds, lastOp >>

\* a due timer runs its callback: handleSearchChange(value) of the render
\* that scheduled it, lines 86-98.  State setters of an unmounted
\* component are ignored by React.  When the new searchedData is no array,
\* searchedData.map (line 137) throws in the render and React, having no
\* error boundary here, unmounts the tree.
TimerFire ==
  /\ timers # <<>>
  /\ timers[1].remaining <= 0
  /\ LET t == timers[1]
     IN /\ searchedData' =
             IF mounted THEN SearchResult(t.value, t.data, t.searchedData)
             ELSE searchedData
        /\ lastOp' = Op("filter", t.value, t.id)
  /\ timers' = Tail(timers)
  /\ mounted' = (mounted /\ IsArray(searchedData'))
  /\ debounceTimer' = IF searchedData' # searchedData THEN NoTimer ELSE debounceTimer
  /\ UNCHANGED << data, searchInput, showDelete, selectedIds, selRef,
                  effectPending, fetchState, nextTimerId, sinceCall,
                  lastArgs, toggleParity, deletedIds >>

\* a handleCheckBox that also flips item.selected in a copy of searchedData,
\* as the handler it replaced did
HandleCheckBox_MarksRow(id) ==
  /\ Interactive
  /\ id \in IdsOf(searchedData)
  /\ selectedIds' = ToggleSet(selectedIds, id)
  /\ selRef' = NewSetRef(selRef)
  /\ effectPending' = (selRef' # selRef)
  /\ searchedData' =
       [i \in 1..Len(searchedData) |->
          [id |-> searchedData[i].id, username |-> searchedData[i].username,
           email |-> searchedData[i].email,
           selected |-> IF searchedData[i].id = id
                        THEN id \notin selectedIds ELSE FALSE]]
  /\ debounceTimer' = NoTimer
  /\ toggleParity' = [toggleParity EXCEPT ![id] = ~@]
  /\ lastOp' = Op("toggle", <<>>, id)
  /\ UNCHANGED << data, searchInput, showDelete, fetchState,
                  mounted, timers, nextTimerId, sinceCall, lastArgs, deletedIds >>

\* onChange of the checkbox of a rendered row, lines 50-62
HandleCheckBox(id) ==
  /\ Interactive
  /\ id \in IdsOf(searchedData)
  /\ selectedIds' = ToggleSet(selectedIds, id)
  /\ selRef' = NewSetRef(selRef)
  /\ effectPending' = (selRef' # selRef)
  /\ debounceTimer' = NoTimer
  /\ toggleParity' = [toggleParity EXCEPT ![id] = ~@]
  /\ lastOp' = Op("toggle", <<>>, id)
  /\ UNCHANGED << data, searchInput, searchedData, showDelete, fetchState,
                  mounted, timers, nextTimerId, sinceCall, lastArgs, deletedIds >>

\* handleDeleteClick without its setSelectedIds(new Set()) call
DeleteClick_KeepsSelection ==
  /\ searchedData' = RemainingNames(searchedData, selectedIds)
  /\ effectPending' = FALSE
  /\ debounceTimer' = NoTimer
  /\ deletedIds' = deletedIds \cup selectedIds
  /\ lastOp' = Op("delete", <<>>, 0)
  /\ UNCHANGED << data, searchInput, showDelete, selectedIds, selRef,
                  toggleParity, fetchState, mounted, timers, nextTimerId,
                  sinceCall, lastArgs >>

\* the body of handleDeleteClick, lines 64-70
DeleteClick ==
  /\ searchedData' = RemainingNames(searchedData, selectedIds)
  /\ selectedIds' = {}
  /\ selRef' = NewSetRef(selRef)
  /\ effectPending' = (selRef' # selRef)
  /\ debounceTimer' = NoTimer
  /\ toggleParity' = [i \in Ids |-> FALSE]
  /\ deletedIds' = deletedIds \cup selectedIds
  /\ lastOp' = Op("delete", <<>>, 0)
  /\ UNCHANGED << data, searchInput, showDelete, fetchState, mounted, timers,
                  nextTimerId, sinceCall, lastArgs >>

\* onClick of the X control; the control is rendered only while
\* showDelete === true (line 134)
HandleDeleteClick ==
  /\ Interactive
  /\ showDelete = TRUE
  /\ DeleteClick

\* handleDeleteClick called while the X control is not rendered (no user
\* event can do this; a caller holding the handler can)
InvokeDeleteClick ==
  /\ Interactive
  /\ showDelete = FALSE
  /\ DeleteClick

\* the effect of lines 109-112, run after a commit in which selectedIds
\* is a different object
ShowDeleteEffect ==
  /\ mounted
  /\ effectPending
  /\ showDelete' = ShowDeleteOf(selectedIds)
  /\ effectPending' = FALSE
  /\ debounceTimer' = IF showDelete' # showDelete THEN NoTimer ELSE debounceTimer
  /\ lastOp' = Op("effect", <<>>, 0)
  /\ UNCHANGED << data, searchInput, searchedData, selectedIds, selRef,
                  fetchState, mounted, timers, nextTimerId, sinceCall, lastArgs,
                  toggleParity, deletedIds >>

\* the fetch resolves and callAPI continues, lines 119-125
FetchResolve ==
  /\ fetchState = "inflight"
  /\ fetchState' = "done"
  /\ data' = IF mounted THEN Users ELSE data
  /\ searchedData' = IF mounted THEN ResultCopy(Users) ELSE searchedData
  /\ debounceTimer' = IF mounted THEN NoTimer ELSE debounceTimer
  /\ lastOp' = Op("fetch", <<>>, 0)
  /\ UNCHANGED << searchInput, showDelete, selectedIds, selRef, effectPending,
                  mounted, timers, nextTimerId, sinceCall, lastArgs,
                  toggleParity, deletedIds >>

\* fetch rejects (network failure) or response.json() rejects (unparseable
\* body), lines 116-119: callAPI's promise rejects before any setter runs
FetchReject ==
  /\ fetchState = "inflight"
  /\ fetchState' = "failed"
  /\ lastOp' = Op("fetchReject", <<>>, 0)
  /\ UNCHANGED << data, searchInput, searchedData, showDelete, selectedIds,
                  selRef, effectPending, mounted, timers, debounceTimer,
                  nextTimerId, sinceCall, lastArgs, toggleParity, deletedIds >>

\* the body parses to JSON that is no array: setData(result) runs (line
\* 120), then resultCopy.forEach (line 122) throws a TypeError, so
\* setSearchedData (line 125) is never reached
FetchNotArray ==
  /\ fetchState = "inflight"
  /\ fetchState' = "failed"
  /\ data' = IF mounted THEN NotAnArray ELSE data
  /\ debounceTimer' = IF mounted THEN NoTimer ELSE debounceTimer
  /\ lastOp' = Op("fetchNotArray", <<>>, 0)
  /\ UNCHANGED << searchInput, searchedData, showDelete, selectedIds, selRef,
                  effectPending, mounted, timers, nextTimerId, sinceCall,
                  lastArgs, toggleParity, deletedIds >>

\* React unmounts the component.  No effect of App returns a cleanup
\* function, so pending timers and the fetch are left as they are.
Unmount ==
  /\ mounted
  /\ ~effectPending
  /\ mounted' = FALSE
  /\ lastOp' = Op("unmount", <<>>, 0)
  /\ UNCHANGED << data, searchInput, searchedData, showDelete, selectedIds,
                  selRef, effectPending, fetchState, timers, debounceTimer,
                  nextTimerId, sinceCall, lastArgs, toggleParity, deletedIds >>

Next ==
  \/ \E v \in InputValues : HandleInputChange(v)
  \/ Tick
  \/ TimerFire
  \/ \E id \in Ids : HandleCheckBox(id)
  \/ HandleDeleteClick
  \/ ShowDeleteEffect
  \/ FetchResolve
  \/ FetchReject
  \/ FetchNotArray
  \/ Unmount

Spec == Init /\ [][Next]_vars

\* the component with fewer input events
NextFair ==
  \/ \E v \in InputValues : nextTimerId <= MaxFairInputs /\ HandleInputChange(v)
  \/ Tick
  \/ TimerFire
  \/ \E id \in Ids : HandleCheckBox(id)
  \/ HandleDeleteClick
  \/ ShowDeleteEffect
  \/ FetchResolve
  \/ FetchReject
  \/ FetchNotArray
  \/ Unmount

\* React runs the passive effects of a commit: a pending [selectedIds]
\* effect is not postponed for ever
SpecFair == Init /\ [][NextFair]_vars /\ WF_vars(ShowDeleteEffect)

\* the component with handleDeleteClick also callable directly
NextInvoke ==
  \/ Next
  \/ InvokeDeleteClick

SpecInvoke == Init /\ [][NextInvoke]_vars

\* ------------------------------------------------- one debounced callable
\* A call of ONE callable returned by debounce(handleSearchChange, 300):
\* its debounceTimer lives on from call to call (lines 5-10).
CallDebounced(v) ==
  /\ nextTimerId <= MaxCalls
  /\ LET r == DebouncedCall(timers, debounceTimer, nextTimerId, v,
                            data, searchedData)
     IN /\ timers' = r.timers
        /\ debounceTimer' = r.debounceTimer
  /\ nextTimerId' = nextTimerId + 1
  /\ sinceCall' = 0
  /\ lastArgs' = v
  /\ lastOp' = Op("call", v, Len(timers))
  /\ UNCHANGED << data, searchInput, searchedData, showDelete, selectedIds,
                  selRef, effectPending, fetchState, mounted, toggleParity,
                  deletedIds >>

NextDebounce ==
  \/ \E v \in InputValues : CallDebounced(v)
  \/ Tick
  \/ TimerFire

SpecDebounce == Init /\ [][NextDebounce]_vars

\* ------------------------------------------------------------ properties
\* the step just taken ran the handler `name`
Ran(name) == lastOp'.op = name /\ lastOp' # lastOp

\* C1 (as stated): two input events with the first timer still pending run
\* the filter once, with the second value: at most one debounce timer is
\* ever pending, and it carries the displayed query.
C1_OneTimerPending ==
  /\ Len(timers) <= 1
  /\ \A i \in 1..Len(timers) : timers[i].value = searchInput

\* C2: for one debounced callable, a call replaces the pending timer by one
\* with the new arguments and the full delay; func runs only with the
\* arguments of the most recent call, only when Delay has passed since that
\* call, and leaves no timer behind (one run per quiescent period).
C2_DebounceTrailing ==
  [][ /\ Len(timers') <= 1
      /\ Ran("call") =>
           /\ Len(timers') = 1
           /\ timers'[1].value = lastArgs'
           /\ timers'[1].remaining = Delay
      /\ Ran("filter") =>
           /\ lastOp'.arg = lastArgs
           /\ sinceCall >= Delay
           /\ timers' = <<>> ]_vars

\* a call arrived while a timer was pending and replaced it
C2_Witness ==
  /\ lastOp.op = "call"
  /\ lastOp.id = 1
  /\ Len(timers) = 1
  /\ timers[1].value = lastArgs
  /\ nextTimerId > 2

\* C3 (as stated): a record whose id was selected at a delete click is in
\* neither the base list nor the visible list, in any later state.
C3_DeletedNeverBack ==
  \A id \in deletedIds : id \notin IdsOf(data) /\ id \notin IdsOf(searchedData)

\* C4: a delete click happens with the control Visible, leaves the visible
\* list as it was minus the selected records (order kept) and the selection
\* empty; the effect that follows turns the control Hidden.
C4_DeleteStep ==
  [][ /\ Ran("delete") =>
           /\ showDelete
           /\ searchedData' =
                SelectSeq(searchedData, LAMBDA r : r.id \notin selectedIds)
           /\ selectedIds' = {}
           /\ effectPending'
      /\ (Ran("effect") /\ selectedIds = {}) => ~showDelete' ]_vars

\* a delete click has just removed some, but not all, visible records
C4_Witness ==
  /\ lastOp.op = "delete"
  /\ deletedIds # {}
  /\ selectedIds = {}
  /\ Len(searchedData) > 0
  /\ Len(searchedData) < Len(Users)

\* C5 (as stated): the stored flag agrees with the selection in every
\* rendered state.
C5_FlagAlwaysInSync == showDelete = (Cardinality(selectedIds) > 0)

\* C5 (amended): the stored flag agrees with the selection in every state
\* in which the [selectedIds] effect of the last commit has run.
C5_FlagInSyncAfterEffect ==
  ~effectPending => (showDelete = (Cardinality(selectedIds) > 0))

\* the effect has just made the control Visible
C5_Witness ==
  /\ lastOp.op = "effect"
  /\ showDelete
  /\ selectedIds # {}

\* C6: an id is selected iff it was toggled an odd number of times since
\* the set was last empty by construction (initially, or cleared by a
\* delete), and every toggle stores a Set object other than the previous.
C6_ToggleParity ==
  [][ /\ selectedIds' = {i \in Ids : toggleParity'[i]}
      /\ Ran("toggle") => selRef' # selRef ]_vars

\* an id has been toggled off again while another one stays selected
C6_Witness ==
  /\ lastOp.op = "toggle"
  /\ lastOp.id \notin selectedIds
  /\ selectedIds # {}

\* C7 (as stated): after the filter action ran with the empty query, the
\* visible list is the full base list.
C7_EmptyQueryResets ==
  [][ (Ran("filter") /\ lastOp'.arg = <<>> /\ mounted)
        => Cores(searchedData') = Cores(data') ]_vars

\* C8 (as stated): the filter action with a non-empty query q leaves
\* exactly the records of the visible list before the run that match q.
C8_NarrowingOnly ==
  [][ (Ran("filter") /\ lastOp'.arg # <<>> /\ mounted)
        => searchedData' =
             SelectSeq(searchedData, LAMBDA r : Matches(r, lastOp'.arg)) ]_vars

\* C9 (as stated): with no debounced call pending, the visible list is a
\* subsequence of the base list and every visible record matches the
\* displayed query.
C9_VisibleMatchesQuery ==
  timers = <<>> =>
    /\ Cores(searchedData) =
         SelectSeq(Cores(data), LAMBDA r : r.id \in IdsOf(searchedData))
    /\ searchInput # <<>> =>
         \A i \in 1..Len(searchedData) : Matches(searchedData[i], searchInput)

\* C10 (as stated): once unmounted, no timer is pending, the filter action
\* does not run, and the lists do not change.
C10_NothingAfterUnmount ==
  [][ ~mounted' =>
        /\ timers' = <<>>
        /\ ~Ran("filter")
        /\ data' = data
        /\ searchedData' = searchedData ]_vars

\* C11: the fetch issued on mount is the only one (no step starts another),
\* and when it succeeds on a mounted component the base list and the
\* visible list both hold the fetched records in the fetched order, while
\* the selection and the query keep their values.
C11_FetchSuccess ==
  [][ /\ fetchState' = "inflight" => fetchState = "inflight"
      /\ (Ran("fetch") /\ mounted) =>
           /\ fetchState = "inflight"
           /\ Cores(data') = Cores(Users)
           /\ Cores(searchedData') = Cores(Users)
           /\ selectedIds' = selectedIds
           /\ searchInput' = searchInput ]_vars

\* the fetch has just succeeded while a query was already displayed
C11_Witness ==
  /\ lastOp.op = "fetch"
  /\ mounted
  /\ fetchState = "done"
  /\ Len(searchedData) = Len(Users)
  /\ searchInput # <<>>

\* C12 (as stated): after a failed or malformed fetch the visible list
\* stays an empty sequence of records (rendering never crashes), whatever
\* query input and filter runs follow.
C12_FailedFetchStaysEmpty ==
  fetchState = "failed" => (IsArray(searchedData) /\ searchedData = <<>>)

\* C13: an input event stores its value as the displayed query and
\* schedules one filter call with that value and the full delay, leaving
\* the base list, the visible list and the selection as they were; the
\* filter call of the latest input runs no sooner than Delay after it.
C13_InputFrame ==
  [][ /\ Ran("input") =>
           /\ searchInput' = lastOp'.arg
           /\ data' = data
           /\ searchedData' = searchedData
           /\ selectedIds' = selectedIds
           /\ showDelete' = showDelete
           /\ Len(timers') = Len(timers) + 1
           /\ timers'[Len(timers')].value = lastOp'.arg
           /\ timers'[Len(timers')].remaining = Delay
      /\ (Ran("filter") /\ lastOp'.id = nextTimerId - 1) =>
           /\ lastOp'.arg = lastArgs
           /\ sinceCall >= Delay ]_vars

\* a query has just been typed over a non-empty list with a selection
C13_Witness ==
  /\ lastOp.op = "input"
  /\ searchInput = lastOp.arg
  /\ Len(searchedData) = Len(Users)
  /\ selectedIds # {}
  /\ timers # <<>>
  /\ timers[Len(timers)].remaining = Delay

\* C14 (as stated): a toggle of row j changes no prop of any other row, so
\* no other row re-renders.
C14_OnlyToggledRowRerenders ==
  [][ Ran("toggle") =>
        \A i \in 1..Len(searchedData) :
          searchedData[i].id # lastOp'.id =>
            RowProps(searchedData', selectedIds', selRef', i)
              = RowProps(searchedData, selectedIds, selRef, i) ]_vars

\* C15: handleDeleteClick run with an empty selection leaves the base
\* list, the visible list, the query, the (empty) selection and the flag
\* as they were, and so does the effect its new Set object triggers; hence
\* any number of such calls gives the same state.
C15_EmptyDeleteIsNoOp ==
  [][ /\ (Ran("delete") /\ selectedIds = {}) =>
           /\ data' = data
           /\ searchedData' = searchedData
           /\ searchInput' = searchInput
           /\ selectedIds' = {}
           /\ showDelete' = showDelete
      /\ (Ran("effect") /\ selectedIds = {} /\ ~showDelete) => ~showDelete' ]_vars

\* the handler has just run on an empty selection over a non-empty list
C15_Witness ==
  /\ lastOp.op = "delete"
  /\ deletedIds = {}
  /\ ~showDelete
  /\ selectedIds = {}
  /\ Len(searchedData) = Len(Users)

\* C16: every selected id is the id of a record of the base list, and the
\* state a delete leaves has no id of a deleted record in the selection.
C16_SelectionWithinBase ==
  [][ /\ selectedIds' \subseteq IdsOf(data')
      /\ Ran("delete") => (selectedIds' \cap deletedIds' = {}) ]_vars

\* after a delete, another record has been selected
C16_Witness ==
  /\ lastOp.op = "toggle"
  /\ deletedIds # {}
  /\ selectedIds # {}
  /\ selectedIds \cap deletedIds = {}

\* C17 (as stated): a filter run computes its result from the base list
\* and the visible list of the moment it runs: with a non-empty query it
\* keeps exactly the matching records visible at that moment (nothing
\* deleted comes back, nothing fetched meanwhile is dropped), with the
\* empty query it shows the base list of that moment.
C17_ReadsStateAtFiringTime ==
  [][ (Ran("filter") /\ mounted) =>
        IF lastOp'.arg = <<>>
        THEN searchedData' = data
        ELSE /\ IdsOf(searchedData') \subseteq IdsOf(searchedData)
             /\ \A i \in 1..Len(searchedData) :
                  Matches(searchedData[i], lastOp'.arg)
                    => searchedData[i].id \in IdsOf(searchedData') ]_vars

\* the step just taken ran a handler of a user event
RanUserEvent == Ran("input") \/ Ran("toggle") \/ Ran("delete")

\* C18: the control starts Hidden; a step that stores another Set leaves
\* the effect pending and no user event is handled until it has run; every
\* user event handler starts with the flag equal to "selection non-empty";
\* a non-empty selection leads to Visible and an empty one to Hidden.
C18_FlagFollowsSelection ==
  /\ ~showDelete
  /\ [][ /\ selRef' # selRef => effectPending'
         /\ RanUserEvent =>
              (~effectPending /\ showDelete = (selectedIds # {})) ]_vars
  /\ (selectedIds # {}) ~> showDelete
  /\ (selectedIds = {}) ~> ~showDelete

\* the effect has just hidden the control again after the last selected
\* row was toggled off
C18_Witness ==
  /\ lastOp.op = "effect"
  /\ ~showDelete
  /\ selectedIds = {}
  /\ deletedIds = {}
  /\ selRef = 0
  /\ fetchState = "done"

\* C19: whenever the visible list is a list, its ids are pairwise distinct
\* and are the ids of the base list that occur in it, in base-list order.
C19_VisibleIsSubsequence ==
  IsArray(searchedData) =>
    LET v == IdSeq(searchedData)
        b == IdSeq(data)
    IN /\ \A i, j \in 1..Len(v) : v[i] = v[j] => i = j
       /\ v = SelectSeq(b, LAMBDA x : \E i \in 1..Len(v) : v[i] = x)

\* a filter run has left the first and the third record
C19_Witness ==
  /\ lastOp.op = "filter"
  /\ IdSeq(searchedData) = <<1, 3>>
  /\ IdSeq(data) = <<1, 2, 3>>

\* C20: only a toggle or a delete changes the selection; an input event, a
\* filter run and a fetch completion leave the selection and the flag as
\* they are (a selected record hidden by a filter stays selected, the
\* control stays Visible); a toggle leaves the base list, the visible list
\* and the query as they are.
C20_SelectionFrame ==
  [][ /\ selectedIds' # selectedIds => (Ran("toggle") \/ Ran("delete"))
      /\ (\/ Ran("input") \/ Ran("filter") \/ Ran("fetch")
          \/ Ran("fetchReject") \/ Ran("fetchNotArray")) =>
           /\ selectedIds' = selectedIds
           /\ showDelete' = showDelete
      /\ Ran("toggle") =>
           /\ data' = data
           /\ searchedData' = searchedData
           /\ searchInput' = searchInput ]_vars

\* a filter run has just hidden a selected record; the control is Visible
C20_Witness ==
  /\ lastOp.op = "filter"
  /\ mounted
  /\ showDelete
  /\ deletedIds = {}
  /\ \E id \in selectedIds : id \notin IdsOf(searchedData)

====
